---- MODULE Spec2Model ----
(***************************************************************************)
(* A model of scripts/ffff.py: the FFFF (Flash Format for Firmware) header *)
(* codec (pack/unpack), its structural validator (validate_ffff_header,    *)
(* validate_element_table), add_element and the layout planner             *)
(* (post_process).                                                         *)
(*                                                                         *)
(* The header is one Ffff object over a caller-owned byte buffer.  The     *)
(* layout constants, the element codec (ffff_element.py) and the helpers   *)
(* of util.py are imported by ffff.py but are not part of the sources at   *)
(* hand; they are modelled from the format description, on a layout that   *)
(* is scaled down (2-byte little-endian words, 2-byte sentinels) but keeps *)
(* the order and the adjacency of the fields.                              *)
(***************************************************************************)
EXTENDS Integers, Sequences, FiniteSets, TLC

VARIABLES
    \* FFFF header fields (Ffff.__init__)
    sentinel, timestamp, flash_image_name, flash_capacity, erase_block_size,
    header_size, flash_image_length, header_generation_number, elements,
    tail_sentinel,
    \* private vars (Ffff.__init__)
    ffff_buf, header_offset, collisions, collisions_found, duplicates,
    duplicates_found, invalid_elements_found, header_validity,
    element_location_min, element_location_max,
    \* the attribute validate_element_table creates by assignment
    duplicatess_found,
    \* control: "ready", "raised" (an exception left the call), "exited" (sys.exit)
    pc,
    \* the last call made on the object, with what it returned
    last,
    \* whether the caller has overwritten a byte of the buffer
    poked,
    \* whether the object serves the loading of an existing image (it is, or
    \* is about to be, reconstructed by unpack) rather than authoring
    loaded

fieldVars == <<sentinel, timestamp, flash_image_name, flash_capacity,
               erase_block_size, header_size, flash_image_length,
               header_generation_number, elements, tail_sentinel>>
tableVars == <<collisions, collisions_found, duplicates, duplicates_found,
               invalid_elements_found, duplicatess_found>>
rangeVars == <<element_location_min, element_location_max>>
vars == <<fieldVars, tableVars, rangeVars, ffff_buf, header_offset,
          header_validity, pc, last, poked, loaded>>

----------------------------------------------------------------------------
(* Layout (ffff_element.py), scaled *)

WordLen == 2
FFFF_SENTINEL_LENGTH == 2
FFFF_TIMESTAMP_LENGTH == 2
FFFF_FLASH_IMAGE_NAME_LENGTH == 2
FFFF_SENTINEL == <<70, 87>>
FFFF_MAX_ELEMENTS == 3
FFFF_PADDING_LENGTH == 3
FFFF_MAX_HEADER_BLOCK_SIZE == 128
FFFF_ELEMENT_END_OF_ELEMENT_TABLE == 0
FFFF_HEADER_COLLISION == -1
FFFF_HDR_VALID == 0
FFFF_HDR_ERASED == 1
FFFF_HDR_INVALID == 2

FFFF_ELT_LENGTH == 5 * WordLen
FFFF_HDR_OFF_TIMESTAMP == FFFF_SENTINEL_LENGTH
FFFF_HDR_OFF_FLASH_IMAGE_NAME == FFFF_HDR_OFF_TIMESTAMP + FFFF_TIMESTAMP_LENGTH
FFFF_HDR_OFF_FLASH_CAPACITY ==
    FFFF_HDR_OFF_FLASH_IMAGE_NAME + FFFF_FLASH_IMAGE_NAME_LENGTH
FFFF_HDR_OFF_ELEMENT_TBL == FFFF_HDR_OFF_FLASH_CAPACITY + 5 * WordLen
FFFF_HDR_OFF_TAIL_SENTINEL ==
    FFFF_HDR_OFF_ELEMENT_TBL + FFFF_MAX_ELEMENTS * FFFF_ELT_LENGTH
        + FFFF_PADDING_LENGTH
FFFF_HDR_LENGTH == FFFF_HDR_OFF_TAIL_SENTINEL + FFFF_SENTINEL_LENGTH

\* What a call that returns nothing, or header_block_size falling off its
\* loop, yields
None == -1

\* Length of the caller's buffer
BufLen == 120

----------------------------------------------------------------------------
(* Bytes: struct.pack_into / unpack_from and bytearray slices *)

Min(a, b) == IF a < b THEN a ELSE b

Pow256(k) == IF k = 0 THEN 1 ELSE IF k = 1 THEN 256 ELSE 65536

\* "<L": an unsigned word, least significant byte first
PackWord(v) == [k \in 1..WordLen |-> (v \div Pow256(k - 1)) % 256]

UnpackWord(buf, off) ==
    LET RECURSIVE Sum(_)
        Sum(k) == IF k = 0 THEN 0
                  ELSE buf[off + k - 1] * Pow256(k - 1) + Sum(k - 1)
    IN  Sum(WordLen)

\* "<Ns": the string cut to the field width, zero-padded up to it
PackStr(s, width) == [k \in 1..width |-> IF k <= Len(s) THEN s[k] ELSE 0]

\* buf[a:b] for 0 <= a, 0 <= b: clamped to the buffer, empty when b <= a
Slice(buf, a, b) ==
    LET e == Min(b, BufLen)
    IN  IF e <= a THEN <<>> ELSE [k \in 1..(e - a) |-> buf[a + k - 1]]

\* pack_into(fmt, buf, off, ...) / buf[off:off+len(bytes)] = bytes, in range
WriteAt(buf, off, bytes) ==
    [p \in DOMAIN buf |->
        IF off <= p /\ p < off + Len(bytes) THEN bytes[p - off + 1] ELSE buf[p]]

----------------------------------------------------------------------------
(* util.py *)

is_constant_fill(span, fill_byte) == \A k \in DOMAIN span : span[k] = fill_byte

is_power_of_2(x) == x # 0 /\ \E k \in 0..16 : x = 2 ^ k

next_boundary(location, block_size) ==
    ((location + block_size - 1) \div block_size) * block_size

----------------------------------------------------------------------------
(* header_block_size: the first size of range(erase_block_size, MAX) above *)
(* the header length; the loop may end without returning                   *)

header_block_size(ebs) ==
    LET S == {size \in ebs..(FFFF_MAX_HEADER_BLOCK_SIZE - 1) :
                size > FFFF_HDR_LENGTH}
    IN  IF S = {} THEN None
        ELSE CHOOSE size \in S : \A other \in S : size <= other

----------------------------------------------------------------------------
(* The element codec (ffff_element.py), as ffff.py uses it *)

\* FfffElement(index, buf, capacity, erase_block_size, type, id, generation,
\*             location, length, filename), after a successful init(): the
\* blob is the loaded file
FfffElement(index, type, id, generation, location, length, blob) ==
    [index |-> index, element_type |-> type, element_id |-> id,
     element_generation |-> generation, element_location |-> location,
     element_length |-> length, blob |-> blob]

\* element.unpack(buf, offset): the five words of one table entry; the blob
\* is the span of the buffer the entry names
ElementUnpack(index, buf, offset) ==
    LET loc == UnpackWord(buf, offset + 3 * WordLen)
        len == UnpackWord(buf, offset + 4 * WordLen)
    IN  FfffElement(index,
                    UnpackWord(buf, offset),
                    UnpackWord(buf, offset + WordLen),
                    UnpackWord(buf, offset + 2 * WordLen),
                    loc, len, Slice(buf, loc, loc + len))

\* element.unpack's result: whether the entry is unused
ElementIsUnused(e) == e.element_type = FFFF_ELEMENT_END_OF_ELEMENT_TABLE

\* element.pack(buf, offset): the bytes of one table entry
ElementBytes(e) ==
    PackWord(e.element_type) \o PackWord(e.element_id)
        \o PackWord(e.element_generation) \o PackWord(e.element_location)
        \o PackWord(e.element_length)

\* element.validate(min, max): the element's span lies in [min, max)
ElementValidate(e, address_range_low, address_range_high) ==
    /\ e.element_location >= address_range_low
    /\ e.element_location + e.element_length <= address_range_high

----------------------------------------------------------------------------
(* validate_element_table *)

RECURSIVE SortedSeq(_)
SortedSeq(S) ==
    IF S = {} THEN <<>>
    ELSE LET m == CHOOSE x \in S : \A y \in S : x <= y
         IN  <<m>> \o SortedSeq(S \ {m})

\* The entries the outer loop reaches before its break
Live(elts) ==
    {i \in 1..Len(elts) :
        \A k \in 1..i : elts[k].element_type # FFFF_ELEMENT_END_OF_ELEMENT_TABLE}

\* The entries the inner loop compares entry i with before its break (the
\* end-of-table test sits inside "if i != j")
InnerReach(elts, i) ==
    {j \in 1..Len(elts) :
        /\ j # i
        /\ \A k \in 1..j :
              k # i => elts[k].element_type # FFFF_ELEMENT_END_OF_ELEMENT_TABLE}

\* Overlap without its second test
Overlap_OneSided(elt_a, elt_b) ==
    LET start_a == elt_a.element_location
        end_b   == elt_b.element_location + elt_b.element_length - 1
    IN  end_b >= start_a

Overlap(elt_a, elt_b) ==
    LET start_a == elt_a.element_location
        end_a   == start_a + elt_a.element_length - 1
        start_b == elt_b.element_location
        end_b   == start_b + elt_b.element_length - 1
    IN  end_b >= start_a /\ start_b <= end_a

SameIdentity(elt_a, elt_b) ==
    /\ elt_a.element_type = elt_b.element_type
    /\ elt_a.element_id = elt_b.element_id
    /\ elt_a.element_generation = elt_b.element_generation

HeaderCollides(elt_a, ebs) ==
    elt_a.element_location < 2 * header_block_size(ebs)

\* collision list of entry i (indices are 0-based, as enumerate() gives them)
CollisionList(elts, i, ebs) ==
    (IF HeaderCollides(elts[i], ebs) THEN <<FFFF_HEADER_COLLISION>> ELSE <<>>)
        \o SortedSeq({j - 1 : j \in {j \in InnerReach(elts, i) :
                                        Overlap(elts[i], elts[j])}})

DuplicateList(elts, i) ==
    SortedSeq({j - 1 : j \in {j \in InnerReach(elts, i) :
                                 SameIdentity(elts[i], elts[j])}})

\* The aggregate result the duplicate branch sets
DuplicateFlag(found_a_duplicate, old) == old

\* What one run of validate_element_table leaves in the object and returns.
\* raised: 2 * header_block_size() with no header block size (TypeError).
TableScan(elts, lmin, lmax, ebs, old_duplicatess) ==
    LET live == Live(elts)
        n    == Cardinality(live)
        cols == [i \in 1..n |-> CollisionList(elts, i, ebs)]
        dups == [i \in 1..n |-> DuplicateList(elts, i)]
        anyc == \E i \in 1..n : cols[i] # <<>>
        anyd == \E i \in 1..n : dups[i] # <<>>
        dupf == DuplicateFlag(anyd, FALSE)
        inv  == \E i \in live : ~ElementValidate(elts[i], lmin, lmax)
    IN  [collisions |-> cols, collisions_found |-> anyc,
         duplicates |-> dups, duplicates_found |-> dupf,
         duplicatess_found |-> (old_duplicatess \/ anyd),
         invalid_elements_found |-> inv,
         raised |-> (n > 0 /\ header_block_size(ebs) = None),
         ret |-> (~anyc /\ ~dupf /\ ~inv)]

----------------------------------------------------------------------------
(* validate_ffff_header *)

Erased(buf, offset) ==
    LET span == Slice(buf, offset, offset + FFFF_HDR_LENGTH)
    IN  is_constant_fill(span, 0) \/ is_constant_fill(span, 255)

SentinelsOK(sent, tail) == sent = FFFF_SENTINEL /\ tail = FFFF_SENTINEL

SizesOK(ebs, image_length) ==
    is_power_of_2(ebs) /\ (image_length % ebs) = 0

PaddingSpan(buf, offset, nelts) ==
    LET span_start == offset + FFFF_HDR_OFF_ELEMENT_TBL + nelts * FFFF_ELT_LENGTH
        span_end   == offset + FFFF_HDR_OFF_TAIL_SENTINEL - span_start
    IN  Slice(buf, span_start, span_end)

PaddingOK(buf, offset, nelts) ==
    is_constant_fill(PaddingSpan(buf, offset, nelts), 0)

\* validate_ffff_header with the "return" of the sentinel check missing: the
\* verdict stays INVALID but the later checks run
ValidateHeader_FallThrough(buf, offset, sent, tail, ebs, image_length, elts, lmin, lmax, old_duplicatess) ==
    LET scan == TableScan(elts, lmin, lmax, ebs, old_duplicatess)
        none == [validity |-> FFFF_HDR_VALID, ran |-> FALSE, scan |-> scan]
    IN  IF Erased(buf, offset)
            THEN [none EXCEPT !.validity = FFFF_HDR_ERASED]
        ELSE IF ~SentinelsOK(sent, tail)
            THEN [validity |-> FFFF_HDR_INVALID, ran |-> TRUE, scan |-> scan]
        ELSE IF ~SizesOK(ebs, image_length)
            THEN [none EXCEPT !.validity = FFFF_HDR_INVALID]
        ELSE IF ~PaddingOK(buf, offset, Len(elts))
            THEN [none EXCEPT !.validity = FFFF_HDR_INVALID]
        ELSE [validity |-> IF scan.ret THEN FFFF_HDR_VALID ELSE FFFF_HDR_INVALID,
              ran |-> TRUE, scan |-> scan]

\* The verdict, and whether the element-table check was reached
\* (stage: the check that fixed the verdict)
ValidateHeader(buf, offset, sent, tail, ebs, image_length, elts, lmin, lmax, old_duplicatess) ==
    LET scan == TableScan(elts, lmin, lmax, ebs, old_duplicatess)
        none == [validity |-> FFFF_HDR_VALID, ran |-> FALSE, scan |-> scan]
    IN  IF Erased(buf, offset)
            THEN [none EXCEPT !.validity = FFFF_HDR_ERASED]
        ELSE IF ~SentinelsOK(sent, tail)
            THEN [none EXCEPT !.validity = FFFF_HDR_INVALID]
        ELSE IF ~SizesOK(ebs, image_length)
            THEN [none EXCEPT !.validity = FFFF_HDR_INVALID]
        ELSE IF ~PaddingOK(buf, offset, Len(elts))
            THEN [none EXCEPT !.validity = FFFF_HDR_INVALID]
        ELSE [validity |-> IF scan.ret THEN FFFF_HDR_VALID ELSE FFFF_HDR_INVALID,
              ran |-> TRUE, scan |-> scan]

----------------------------------------------------------------------------
(* Inputs *)

\* Erase block sizes and target image lengths the header is constructed with
EraseBlockSizes == {4, 8}
ImageLengths == {0, BufLen - (BufLen % 8)}
\* Image names: absent, and shorter than the field
ImageNames == {<<>>, <<97>>}
\* strftime(gmtime()): shorter than its field
Timestamps == {<<49>>}
\* The elements added: (type, id, generation, --element-location, length of
\* the file).  Location 0 is to be assigned by post_process; the others lie
\* behind the two header blocks.
FirstLocation == 2 * header_block_size(4)
ElementInputs ==
    {<<1, 5, 2, FirstLocation, 4>>,
     <<1, 5, 2, FirstLocation, 6>>,
     <<1, 5, 2, FirstLocation + 4, 4>>,
     <<1, 5, 3, FirstLocation + 4, 6>>,
     <<1, 5, 2, 0, 6>>,
     <<2, 5, 2, 0, 4>>,
     <<FFFF_ELEMENT_END_OF_ELEMENT_TABLE, 0, 0, FirstLocation + 4, 4>>}
\* header-relative places where the caller may overwrite a byte: the first
\* byte of the leading sentinel, the low byte of the image length, the id of
\* the first table entry, the last padding byte, the last byte of the
\* trailing sentinel
PokeOffsets ==
    {0, FFFF_HDR_OFF_FLASH_CAPACITY + 3 * WordLen,
     FFFF_HDR_OFF_ELEMENT_TBL + WordLen,
     FFFF_HDR_OFF_TAIL_SENTINEL - 1,
     FFFF_HDR_LENGTH - 1}
PokeValues == {1}

\* The file of an element: its bytes tell the element they belong to
Blob(type, generation, location, length) ==
    [k \in 1..length |-> 100 + 10 * generation + (location % 10) + type]

Call(op, ret, table) == [op |-> op, ret |-> ret, table |-> table]

BoolStr(b) == IF b THEN "True" ELSE "False"

----------------------------------------------------------------------------
(* Ffff.__init__: for authoring, over a fresh bytearray (zeros); for     *)
(* loading, over blank flash (all 0x00 or all 0xFF)                      *)

Init ==
    /\ loaded \in BOOLEAN
    /\ \E fill \in {0, 255} :
          /\ fill = 255 => loaded
          /\ ffff_buf = [p \in 0..(BufLen - 1) |-> fill]
    /\ erase_block_size \in EraseBlockSizes
    /\ header_offset \in {0, header_block_size(erase_block_size)}
    /\ flash_image_name \in ImageNames
    /\ flash_capacity = BufLen
    /\ flash_image_length \in ImageLengths
    /\ header_generation_number = 1
    /\ sentinel = <<>>
    /\ timestamp = <<>>
    /\ header_size = FFFF_HDR_LENGTH
    /\ elements = <<>>
    /\ tail_sentinel = <<>>
    /\ collisions = <<>>
    /\ collisions_found = FALSE
    /\ duplicates = <<>>
    /\ duplicates_found = FALSE
    /\ invalid_elements_found = FALSE
    /\ duplicatess_found = FALSE
    /\ header_validity = FFFF_HDR_VALID
    /\ element_location_min = 2 * header_block_size(erase_block_size)
    /\ element_location_max = flash_image_length
    /\ pc = "ready"
    /\ last = Call("init", "None", "none")
    /\ poked = FALSE

----------------------------------------------------------------------------
(* pack *)

PackHeader(buf, offset, sent, now, name, capacity, ebs, image_length, generation, tail, elts) ==
    LET b1 == WriteAt(buf, offset,
                      PackStr(sent, FFFF_SENTINEL_LENGTH)
                          \o PackStr(now, FFFF_TIMESTAMP_LENGTH))
        b2 == IF name # <<>>
                THEN WriteAt(b1, offset + FFFF_HDR_OFF_FLASH_IMAGE_NAME,
                             PackStr(name, FFFF_FLASH_IMAGE_NAME_LENGTH))
                ELSE b1
        b3 == WriteAt(b2, offset + FFFF_HDR_OFF_FLASH_CAPACITY,
                      PackWord(capacity) \o PackWord(ebs)
                          \o PackWord(FFFF_HDR_LENGTH) \o PackWord(image_length)
                          \o PackWord(generation))
        b4 == WriteAt(b3, offset + FFFF_HDR_OFF_TAIL_SENTINEL,
                      PackStr(tail, FFFF_SENTINEL_LENGTH))
        RECURSIVE Table(_, _)
        Table(b, k) ==
            IF k > Len(elts) THEN b
            ELSE Table(WriteAt(b, offset + FFFF_HDR_OFF_ELEMENT_TBL
                                      + (k - 1) * FFFF_ELT_LENGTH,
                               ElementBytes(elts[k])),
                       k + 1)
    IN  Table(b4, 1)

Pack ==
    /\ pc = "ready"
    /\ ~loaded
    /\ last.op \in {"init", "add_element"}
    /\ \E now \in Timestamps :
          ffff_buf' = PackHeader(ffff_buf, header_offset, sentinel, now,
                                 flash_image_name, flash_capacity,
                                 erase_block_size, flash_image_length,
                                 header_generation_number, tail_sentinel,
                                 elements)
    /\ last' = Call("pack", "None", "none")
    /\ UNCHANGED <<fieldVars, tableVars, rangeVars, header_offset,
                   header_validity, pc, poked, loaded>>

----------------------------------------------------------------------------
(* unpack *)

\* The table loop: entries are read from FFFF_HDR_OFF_ELEMENT_TBL on, up to
\* the first unused one
RECURSIVE DecodeTable(_, _, _)
DecodeTable(buf, offset, index) ==
    IF index >= FFFF_MAX_ELEMENTS THEN <<>>
    ELSE LET element == ElementUnpack(index, buf, offset)
         IN  IF ElementIsUnused(element) THEN <<>>
             ELSE <<element>>
                      \o DecodeTable(buf, offset + FFFF_ELT_LENGTH, index + 1)

\* Where unpack starts reading the element table
TableStart(offset) == FFFF_HDR_OFF_ELEMENT_TBL

Unpack ==
    /\ pc = "ready"
    /\ LET off  == header_offset
           ebs  == UnpackWord(ffff_buf, off + FFFF_HDR_OFF_FLASH_CAPACITY + WordLen)
           cap  == UnpackWord(ffff_buf, off + FFFF_HDR_OFF_FLASH_CAPACITY)
           len  == UnpackWord(ffff_buf,
                              off + FFFF_HDR_OFF_FLASH_CAPACITY + 3 * WordLen)
           sent == Slice(ffff_buf, off, off + FFFF_SENTINEL_LENGTH)
           tail == Slice(ffff_buf, off + FFFF_HDR_OFF_TAIL_SENTINEL,
                         off + FFFF_HDR_OFF_TAIL_SENTINEL + FFFF_SENTINEL_LENGTH)
           hbs  == header_block_size(ebs)
           elts == DecodeTable(ffff_buf, TableStart(off), 0)
           v    == ValidateHeader(ffff_buf, off, sent, tail, ebs, len, elts,
                                  2 * hbs, cap, duplicatess_found)
       IN  /\ sentinel' = sent
           /\ timestamp' = Slice(ffff_buf, off + FFFF_HDR_OFF_TIMESTAMP,
                                 off + FFFF_HDR_OFF_TIMESTAMP
                                     + FFFF_TIMESTAMP_LENGTH)
           /\ flash_image_name' =
                 Slice(ffff_buf, off + FFFF_HDR_OFF_FLASH_IMAGE_NAME,
                       off + FFFF_HDR_OFF_FLASH_IMAGE_NAME
                           + FFFF_FLASH_IMAGE_NAME_LENGTH)
           /\ flash_capacity' = cap
           /\ erase_block_size' = ebs
           /\ header_size' =
                 UnpackWord(ffff_buf,
                            off + FFFF_HDR_OFF_FLASH_CAPACITY + 2 * WordLen)
           /\ flash_image_length' = len
           /\ header_generation_number' =
                 UnpackWord(ffff_buf,
                            off + FFFF_HDR_OFF_FLASH_CAPACITY + 4 * WordLen)
           /\ tail_sentinel' = tail
           /\ IF hbs = None
                THEN \* 2 * None: TypeError leaves unpack
                     /\ pc' = "raised"
                     /\ last' = Call("unpack", "raised", "none")
                     /\ UNCHANGED <<elements, tableVars, rangeVars,
                                    header_validity>>
                ELSE /\ element_location_min' = 2 * hbs
                     /\ element_location_max' = cap
                     /\ elements' = elts
                     /\ header_validity' = v.validity
                     /\ IF v.ran
                          THEN /\ collisions' = v.scan.collisions
                               /\ collisions_found' = v.scan.collisions_found
                               /\ duplicates' = v.scan.duplicates
                               /\ duplicates_found' = v.scan.duplicates_found
                               /\ duplicatess_found' = v.scan.duplicatess_found
                               /\ invalid_elements_found' =
                                     v.scan.invalid_elements_found
                          ELSE UNCHANGED tableVars
                     /\ pc' = IF v.ran /\ v.scan.raised THEN "raised" ELSE "ready"
                     /\ last' = Call("unpack", "None",
                                     IF v.ran THEN BoolStr(v.scan.ret) ELSE "none")
    /\ loaded' = TRUE
    /\ UNCHANGED <<ffff_buf, header_offset, poked>>

----------------------------------------------------------------------------
(* add_element *)

\* The capacity test off by one
HasRoom_OffByOne(elts) == Len(elts) <= FFFF_MAX_ELEMENTS

\* The table has room for one more entry
HasRoom(elts) == Len(elts) < FFFF_MAX_ELEMENTS

\* element.init() succeeded: the element joins the table and its file is
\* copied into the buffer at the location it was given
AddElement ==
    /\ pc = "ready"
    /\ ~loaded
    /\ last.op \in {"init", "add_element"}
    /\ HasRoom(elements)
    /\ \E in \in ElementInputs :
          LET blob    == Blob(in[1], in[3], in[4], in[5])
              element == FfffElement(Len(elements), in[1], in[2], in[3],
                                     in[4], in[5], blob)
              span_start == element.element_location
          IN  /\ span_start + Len(blob) <= BufLen
              /\ elements' = Append(elements, element)
              /\ ffff_buf' = WriteAt(ffff_buf, span_start, blob)
    /\ last' = Call("add_element", "True", "none")
    /\ UNCHANGED <<sentinel, timestamp, flash_image_name, flash_capacity,
                   erase_block_size, header_size, flash_image_length,
                   header_generation_number, tail_sentinel, tableVars,
                   rangeVars, header_offset, header_validity, pc, poked,
                   loaded>>

\* element.init() failed (the file could not be loaded), or the table is full
AddElementRefused ==
    /\ pc = "ready"
    /\ ~loaded
    /\ last.op \in {"init", "add_element"}
    /\ last' = Call("add_element", "False", "none")
    /\ UNCHANGED <<fieldVars, tableVars, rangeVars, ffff_buf, header_offset,
                   header_validity, pc, poked, loaded>>

----------------------------------------------------------------------------
(* post_process *)

\* The cursor advanced from the element's location alone
Advance_NoLength(element, ebs) ==
    next_boundary(element.element_location, ebs)

\* Where the cursor goes after an element
Advance(element, ebs) ==
    next_boundary(element.element_location + element.element_length, ebs)

\* Whether the element's location is one post_process is to assign
Unplaced(element) == element.element_location = 0

\* The scan of the elements from entry k on, with the cursor at location:
\* the table as the loop leaves it, the final cursor, and whether the loop
\* ended in sys.exit
RECURSIVE Place(_, _, _, _, _)
Place(elts, k, location, image_length, ebs) ==
    IF k > Len(elts) THEN [elts |-> elts, location |-> location, exit |-> FALSE]
    ELSE LET placed == IF Unplaced(elts[k])
                         THEN [elts EXCEPT ![k].element_location = location]
                         ELSE elts
             element == placed[k]
         IN  IF /\ image_length # 0
                /\ element.element_location + element.element_length
                       >= image_length
               THEN [elts |-> placed, location |-> location, exit |-> TRUE]
               ELSE Place(placed, k + 1, Advance(element, ebs),
                          image_length, ebs)

\* The image length post_process leaves
PlannedLength(image_length, cursor) ==
    IF image_length = 0 THEN cursor ELSE image_length

PostProcess ==
    /\ pc = "ready"
    /\ ~loaded
    /\ last.op \in {"init", "add_element"}
    /\ IF elements = <<>>
         THEN \* self.elements[0]: IndexError
              /\ pc' = "raised"
              /\ last' = Call("post_process", "raised", "none")
              /\ UNCHANGED <<fieldVars, tableVars, ffff_buf, header_validity>>
         ELSE LET plan == Place(elements, 1, elements[1].element_location,
                                flash_image_length, erase_block_size)
              IN  IF plan.exit
                    THEN /\ pc' = "exited"
                         /\ last' = Call("post_process", "exited", "none")
                         /\ elements' = plan.elts
                         /\ UNCHANGED <<sentinel, timestamp, flash_image_name,
                                        flash_capacity, erase_block_size,
                                        header_size, flash_image_length,
                                        header_generation_number,
                                        tail_sentinel, tableVars, ffff_buf,
                                        header_validity>>
                    ELSE \E stamp \in Timestamps, now \in Timestamps :
                         LET length == PlannedLength(flash_image_length,
                                                     plan.location)
                             name == SubSeq(flash_image_name, 1,
                                            Min(Len(flash_image_name),
                                                FFFF_FLASH_IMAGE_NAME_LENGTH))
                             buf  == PackHeader(ffff_buf, header_offset,
                                                FFFF_SENTINEL, now, name,
                                                flash_capacity,
                                                erase_block_size, length,
                                                header_generation_number,
                                                FFFF_SENTINEL, plan.elts)
                             scan == TableScan(plan.elts, element_location_min,
                                               element_location_max,
                                               erase_block_size,
                                               duplicatess_found)
                             v    == ValidateHeader(buf, header_offset,
                                                    FFFF_SENTINEL, FFFF_SENTINEL,
                                                    erase_block_size, length,
                                                    plan.elts,
                                                    element_location_min,
                                                    element_location_max,
                                                    scan.duplicatess_found)
                         IN  /\ elements' = plan.elts
                             /\ flash_image_length' = length
                             /\ collisions' = scan.collisions
                             /\ collisions_found' = scan.collisions_found
                             /\ duplicates' = scan.duplicates
                             /\ duplicates_found' = scan.duplicates_found
                             /\ duplicatess_found' = scan.duplicatess_found
                             /\ invalid_elements_found' =
                                   scan.invalid_elements_found
                             /\ sentinel' = FFFF_SENTINEL
                             /\ timestamp' = stamp
                             /\ flash_image_name' = name
                             /\ tail_sentinel' = FFFF_SENTINEL
                             /\ ffff_buf' = buf
                             /\ header_validity' = v.validity
                             /\ pc' = IF scan.raised THEN "raised" ELSE "ready"
                             /\ last' = Call("post_process", "None",
                                             BoolStr(scan.ret))
                             /\ UNCHANGED <<flash_capacity, erase_block_size,
                                            header_size,
                                            header_generation_number>>
    /\ UNCHANGED <<rangeVars, header_offset, poked, loaded>>

----------------------------------------------------------------------------
(* The caller owns the buffer: the flash read back may differ in a byte *)
(* from what was written                                                *)

Poke ==
    /\ pc = "ready"
    /\ ~poked
    /\ last.op \in {"init", "post_process"}
    /\ \E at \in PokeOffsets, value \in PokeValues :
          /\ ffff_buf[header_offset + at] # value
          /\ ffff_buf' = [ffff_buf EXCEPT ![header_offset + at] = value]
    /\ poked' = TRUE
    /\ last' = Call("poke", "None", "none")
    /\ UNCHANGED <<fieldVars, tableVars, rangeVars, header_offset,
                   header_validity, pc, loaded>>

----------------------------------------------------------------------------

Next ==
    \/ AddElement
    \/ AddElementRefused
    \/ PostProcess
    \/ Pack
    \/ Unpack
    \/ Poke

Spec == Init /\ [][Next]_vars

----------------------------------------------------------------------------
(* Properties *)

Range(seq) == {seq[k] : k \in DOMAIN seq}

\* The last call ran validate_element_table to its end
TableChecked == pc = "ready" /\ last.table # "none"

\* The last call ran validate_ffff_header to its end
HeaderChecked == pc = "ready" /\ last.op \in {"unpack", "post_process"}

\* Two live entries with the same (type, id, generation)
DuplicatePair(i, j) ==
    /\ i \in Live(elements) /\ j \in Live(elements) /\ i # j
    /\ elements[i].element_type = elements[j].element_type
    /\ elements[i].element_id = elements[j].element_id
    /\ elements[i].element_generation = elements[j].element_generation

\* C1: whenever two live entries share (type, id, generation), the table
\* check records each as a duplicate of the other, sets duplicates_found and
\* returns failure, and validate_ffff_header classifies the header INVALID.
C1_DuplicatesSurface ==
    TableChecked =>
        \A i, j \in 1..Len(elements) :
            DuplicatePair(i, j) =>
                /\ (j - 1) \in Range(duplicates[i])
                /\ (i - 1) \in Range(duplicates[j])
                /\ duplicates_found
                /\ last.table = "False"
                /\ header_validity = FFFF_HDR_INVALID

\* C2: unpack of a buffer whose header region is all 0x00, or all 0xFF,
\* completes and records the verdict ERASED.
C2_ErasedOnLoad ==
    (last.op = "unpack" /\ Erased(ffff_buf, header_offset)) =>
        (pc = "ready" /\ header_validity = FFFF_HDR_ERASED)

\* A non-zero byte between the end of the last decoded entry and the
\* trailing sentinel
PaddingDirty ==
    \E p \in (header_offset + FFFF_HDR_OFF_ELEMENT_TBL
                  + Len(elements) * FFFF_ELT_LENGTH)
             .. (header_offset + FFFF_HDR_OFF_TAIL_SENTINEL - 1) :
        ffff_buf[p] # 0

\* C3: for a non-erased header with good sentinels and good sizes, the
\* verdict is INVALID if and only if a byte of the padding region is non-zero
\* or the element-table check fails.
C3_PaddingChecked ==
    (/\ HeaderChecked
     /\ ~Erased(ffff_buf, header_offset)
     /\ SentinelsOK(sentinel, tail_sentinel)
     /\ SizesOK(erase_block_size, flash_image_length)) =>
        (header_validity = FFFF_HDR_INVALID
            <=> (\/ PaddingDirty
                 \/ ~TableScan(elements, element_location_min,
                               element_location_max, erase_block_size,
                               FALSE).ret))


\* Zero-padded to the width of its field ("<Ns")
Padded(str, width) == [k \in 1..width |-> IF k <= Len(str) THEN str[k] ELSE 0]

\* A valid element table: every entry is an element (none is the end
\* marker), lies in [2 * header_block_size, flash_capacity), and no two
\* entries overlap or share an identity
ValidTable ==
    /\ \A i \in 1..Len(elements) :
          /\ elements[i].element_type # FFFF_ELEMENT_END_OF_ELEMENT_TABLE
          /\ elements[i].element_location
                 >= 2 * header_block_size(erase_block_size)
          /\ elements[i].element_location + elements[i].element_length
                 <= flash_capacity
    /\ \A i, j \in 1..Len(elements) :
          i # j =>
             /\ ~DuplicatePair(i, j)
             /\ \/ elements[i].element_location + elements[i].element_length
                      <= elements[j].element_location
                \/ elements[j].element_location + elements[j].element_length
                      <= elements[i].element_location

\* C4: for a header with a valid element table, pack followed by unpack at
\* the same header offset, zero or not, reproduces the element count, the
\* elements' identities, locations and lengths, and the scalar fields other
\* than the timestamp (strings up to the zero padding of their fields).
C4_RoundTrip ==
    [][(/\ last.op \in {"pack", "post_process"}
        /\ last'.op = "unpack"
        /\ ValidTable) =>
            /\ pc' = "ready"
            /\ Len(elements') = Len(elements)
            /\ \A i \in 1..Len(elements) :
                  /\ i <= Len(elements')
                  /\ elements'[i].element_type = elements[i].element_type
                  /\ elements'[i].element_id = elements[i].element_id
                  /\ elements'[i].element_generation
                         = elements[i].element_generation
                  /\ elements'[i].element_location
                         = elements[i].element_location
                  /\ elements'[i].element_length = elements[i].element_length
            /\ sentinel' = Padded(sentinel, FFFF_SENTINEL_LENGTH)
            /\ tail_sentinel' = Padded(tail_sentinel, FFFF_SENTINEL_LENGTH)
            /\ flash_image_name'
                   = Padded(flash_image_name, FFFF_FLASH_IMAGE_NAME_LENGTH)
            /\ flash_capacity' = flash_capacity
            /\ erase_block_size' = erase_block_size
            /\ header_size' = header_size
            /\ flash_image_length' = flash_image_length
            /\ header_generation_number' = header_generation_number]_vars

\* The bytes entry i claims
Bytes(i) ==
    elements[i].element_location
        .. (elements[i].element_location + elements[i].element_length - 1)

\* C5: after the table check, collisions[i] holds j exactly when the byte
\* ranges of the live entries i and j meet, hence exactly when collisions[j]
\* holds i; it holds the header-collision marker exactly when entry i lies
\* below 2 * header_block_size; and any entry in a collision list makes the
\* table check fail.
C5_CollisionsExact ==
    TableChecked =>
        /\ Len(collisions) = Cardinality(Live(elements))
        /\ \A i \in Live(elements) :
              /\ \A j \in Live(elements) \ {i} :
                    /\ (j - 1) \in Range(collisions[i])
                          <=> (Bytes(i) \cap Bytes(j) # {})
                    /\ (j - 1) \in Range(collisions[i])
                          <=> (i - 1) \in Range(collisions[j])
              /\ FFFF_HEADER_COLLISION \in Range(collisions[i])
                    <=> elements[i].element_location
                            < 2 * header_block_size(erase_block_size)
              /\ Range(collisions[i]) \subseteq
                    {FFFF_HEADER_COLLISION}
                        \cup {j - 1 : j \in Live(elements) \ {i}}
              /\ collisions[i] # <<>> =>
                    (collisions_found /\ last.table = "False")

\* C5 witness: a table check that found one entry colliding with the header
\* region alone and two other entries colliding with each other
C5_Witness ==
    /\ TableChecked
    /\ \E i \in 1..Len(collisions) : collisions[i] = <<FFFF_HEADER_COLLISION>>
    /\ \E i, j \in 1..Len(collisions) :
          i # j /\ collisions[i] = <<j - 1>> /\ collisions[j] = <<i - 1>>


\* A byte of the leading or of the trailing sentinel of the header in the
\* buffer differs from the magic value
SentinelByteOff(buf) ==
    \E k \in 1..FFFF_SENTINEL_LENGTH :
        \/ buf[header_offset + k - 1] # FFFF_SENTINEL[k]
        \/ buf[header_offset + FFFF_HDR_OFF_TAIL_SENTINEL + k - 1]
               # FFFF_SENTINEL[k]

\* C6: the validator's checks run in the order erasure, sentinel, size,
\* padding, element table and the first failing one fixes the verdict: on a
\* header region that is not constant fill, a sentinel that differs from the
\* magic value in any byte gives INVALID, and (as for an erased header or bad
\* sizes) the collision, duplicate and invalid-element results keep the
\* values they had before the call.
C6_ShortCircuit ==
    [][(last'.op = "unpack" /\ pc' = "ready") =>
          /\ Erased(ffff_buf', header_offset) =>
                (header_validity' = FFFF_HDR_ERASED /\ UNCHANGED tableVars)
          /\ (~Erased(ffff_buf', header_offset) /\ SentinelByteOff(ffff_buf')) =>
                (header_validity' = FFFF_HDR_INVALID /\ UNCHANGED tableVars)
          /\ (/\ ~Erased(ffff_buf', header_offset)
              /\ ~SentinelByteOff(ffff_buf')
              /\ ~SizesOK(erase_block_size', flash_image_length')) =>
                (header_validity' = FFFF_HDR_INVALID /\ UNCHANGED tableVars)
       ]_vars

\* C6 witness: unpack has classified a written header with a damaged
\* sentinel INVALID, and the collisions an earlier table check found are
\* still there
C6_Witness ==
    /\ last = Call("unpack", "None", "none")
    /\ pc = "ready"
    /\ ~Erased(ffff_buf, header_offset)
    /\ SentinelByteOff(ffff_buf)
    /\ header_validity = FFFF_HDR_INVALID
    /\ collisions_found
    /\ \E i \in 1..Len(collisions) : collisions[i] # <<>>

\* The first multiple of block_size at or after location
Boundary(location, block_size) ==
    CHOOSE m \in location..(location + block_size - 1) : m % block_size = 0

\* The example of three files of 100, 250 and 50 bytes and erase blocks of 64
ExampleElements ==
    <<FfffElement(0, 1, 1, 1, 0, 100, <<>>),
      FfffElement(1, 1, 2, 1, 0, 250, <<>>),
      FfffElement(2, 1, 3, 1, 0, 50, <<>>)>>

ExamplePlan == Place(ExampleElements, 1, ExampleElements[1].element_location,
                     0, 64)

\* C7: post_process entered with image length zero leaves every element
\* given a non-zero location where it was and gives every element with
\* location zero the cursor, which starts at the first element's location
\* and after each element is the next erase-block boundary at or after its
\* location + length; the image length becomes the final cursor.  Lengths
\* 100, 250, 50 with erase blocks of 64 give 0, 128, 384 and 448.
C7_LayoutPlan ==
    /\ <<ExamplePlan.elts[1].element_location,
         ExamplePlan.elts[2].element_location,
         ExamplePlan.elts[3].element_location,
         PlannedLength(0, ExamplePlan.location)>> = <<0, 128, 384, 448>>
    /\ [][(/\ last'.op = "post_process"
           /\ pc' = "ready"
           /\ flash_image_length = 0) =>
             LET n == Len(elements)
                 End(k) == elements'[k].element_location
                               + elements'[k].element_length
                 Cursor(k) == IF k = 1 THEN elements[1].element_location
                              ELSE Boundary(End(k - 1), erase_block_size)
             IN  /\ Len(elements') = n
                 /\ \A k \in 1..n :
                       /\ elements'[k].element_length
                              = elements[k].element_length
                       /\ elements'[k].element_location =
                             IF elements[k].element_location = 0
                               THEN Cursor(k)
                               ELSE elements[k].element_location
                 /\ flash_image_length' = Boundary(End(n), erase_block_size)
         ]_vars

\* C7 witness: post_process has placed the second and the third element of
\* a full table behind the first and has set the image length
C7_Witness ==
    /\ last.op = "post_process"
    /\ pc = "ready"
    /\ Len(elements) = FFFF_MAX_ELEMENTS
    /\ elements[1].element_location = FirstLocation
    /\ elements[2].element_location > FirstLocation + 4
    /\ elements[3].element_location > elements[2].element_location
    /\ flash_image_length > elements[3].element_location
    /\ flash_image_length \notin ImageLengths

\* C8: after add_element calls and post_process, the buffer holds every
\* element's blob at the element's final location (stated for the elements
\* that end up behind the two header blocks, where pack writes nothing).
C8_BlobsInPlace ==
    (last.op = "post_process" /\ pc = "ready") =>
        \A i \in 1..Len(elements) :
            elements[i].element_location
                >= 2 * header_block_size(erase_block_size) =>
            Slice(ffff_buf, elements[i].element_location,
                  elements[i].element_location + Len(elements[i].blob))
                = elements[i].blob

\* C9: add_element on a full table returns failure without raising and
\* leaves the elements and the buffer as they were; the table never holds
\* more than FFFF_MAX_ELEMENTS entries; a successful add appends exactly one
\* entry, whose index is the previous table length.
C9_TableCapacity ==
    /\ [](Len(elements) <= FFFF_MAX_ELEMENTS)
    /\ [][last'.op = "add_element" =>
            /\ pc' = "ready"
            /\ Len(elements) >= FFFF_MAX_ELEMENTS =>
                  /\ last'.ret = "False"
                  /\ elements' = elements
                  /\ ffff_buf' = ffff_buf
            /\ last'.ret = "True" =>
                  /\ Len(elements') = Len(elements) + 1
                  /\ SubSeq(elements', 1, Len(elements)) = elements
                  /\ elements'[Len(elements')].index = Len(elements)
            /\ last'.ret = "False" => elements' = elements
         ]_vars

\* C9 witness: add_element has been refused on a full table
C9_Witness ==
    /\ last = Call("add_element", "False", "none")
    /\ pc = "ready"
    /\ Len(elements) = FFFF_MAX_ELEMENTS

\* C10: post_process entered with image length zero leaves an image length
\* that is a multiple of the erase block size and that no element ends
\* beyond (stated for tables that hold no end-of-table entry).
C10_ImageContainsElements ==
    [][(/\ last'.op = "post_process"
        /\ pc' = "ready"
        /\ flash_image_length = 0
        /\ Live(elements) = 1..Len(elements)) =>
          /\ flash_image_length' % erase_block_size' = 0
          /\ \A i \in 1..Len(elements') :
                elements'[i].element_location + elements'[i].element_length
                    <= flash_image_length'
       ]_vars

\* The values erase_block_size * 2^k, k >= 0, above the header length
PowerOf2Multiples(ebs) ==
    {m \in {ebs * (2 ^ k) : k \in 0..16} : m > FFFF_HDR_LENGTH}

\* The smallest of them, capped at the maximum header block size
SmallestPowerOf2Multiple(ebs) ==
    LET S == PowerOf2Multiples(ebs)
        least == CHOOSE m \in S : \A other \in S : m <= other
    IN  Min(least, FFFF_MAX_HEADER_BLOCK_SIZE)

\* C11: for the header's erase block size, when it is a power of two,
\* header_block_size returns a defined integer, the smallest
\* erase_block_size * 2^k (k >= 0) above the header length, capped at the
\* maximum header block size.
C11_HeaderBlockSize ==
    is_power_of_2(erase_block_size) =>
        /\ header_block_size(erase_block_size) # None
        /\ header_block_size(erase_block_size)
               = SmallestPowerOf2Multiple(erase_block_size)

\* Entry i lies outside the placement range of the header as it stands:
\* [2 * header_block_size of its erase block size, its flash capacity)
OutOfRange(i) ==
    ~ElementValidate(elements[i],
                     2 * header_block_size(erase_block_size),
                     flash_capacity)

\* C12: whenever the element-table check has run, on a decoded header and
\* on an authored one alike, invalid_elements_found is set exactly when some
\* live entry lies outside [2 * header_block_size, flash_capacity), wherever
\* in the table that entry stands, and when it is set the table check fails.
C12_PlacementRange ==
    TableChecked =>
        /\ invalid_elements_found
              <=> (\E i \in Live(elements) : OutOfRange(i))
        /\ invalid_elements_found => last.table = "False"

====
